---- MODULE Spec2Model ----
(***************************************************************************)
(* A model of the multiplayer game client in src/src/main.rs: the Player   *)
(* entity (motion toward a target, message expiry, pose and bobbing        *)
(* animation), Game::update / Game::handle_input, the frame loop of main   *)
(* with its heartbeat, change-triggered and message send blocks, and the   *)
(* network listener.                                                       *)
(*                                                                         *)
(* Units.  Time is in milliseconds.  An Instant field of the source        *)
(* (last_send_time, last_message_send_time, last_pose_update_time) holds   *)
(* the time elapsed since that instant, i.e. what Instant::elapsed()       *)
(* returns; "field = 0" is "field = Instant::now()".  The code only ever   *)
(* compares an elapsed time with a threshold, so each one saturates at    *)
(* the largest threshold it is compared with.  Coordinates are whole       *)
(* pixels (the f32 arithmetic of the source truncated toward zero).        *)
(* pose_interp_factor and bobbing_offset are in thousandths.               *)
(***************************************************************************)
EXTENDS Integers, Sequences, FiniteSets, TLC

VARIABLES
    game,      \* the Game behind the Arc<Mutex<..>>
    pc,        \* the block of the frame loop that runs next
    dt,        \* get_frame_time() of the current loop iteration
    outbox,    \* the messages handed to network().send in this iteration
    lastPos,   \* the position of the last PlayerPosition sent, if any
    setAge,    \* time since a key press last set the local message, if any
    msgSends,  \* UpdateMessages sent since that key press
    sincePos,  \* time since the last PlayerPosition was sent
    seen,      \* what the blocks of this iteration read from the game, and
               \* whether a key set the message in its update
    calls,     \* number of update calls made (SpecMotion, SpecAnim), or of
               \* events (SpecNet)
    start,     \* the entity as first given to SpecMotion
    last,      \* the event the game last went through (SpecNet)
    rep,       \* how many times in a row that same event came, up to 2
    before,    \* the ids of the remote players before that event
    drawn,     \* the players Game::draw drew, in the order of the calls
    lock,      \* the holder of the Mutex around the game (SpecLock)
    poisoned,  \* the Mutex is poisoned: a thread panicked holding it
    crashed    \* the threads that have panicked

\* The variables of the listener's events, of Game::draw and of the Mutex.
aux == <<last, rep, before, drawn, lock, poisoned, crashed>>

vars == <<game, pc, dt, outbox, lastPos, sincePos, setAge, msgSends, seen,
          calls, start, aux>>

----------------------------------------------------------------------------
(* Program constants *)

send_interval == 16
message_send_interval == 1000
HeartbeatInterval == 1000
MessageExpiry == 15000
pose_update_interval == 100
NumRunPoses == 5
PlayerSpeed == 250
SpawnX == 400
SpawnY == 300
PlayerSize == 30
ScreenWidth == 800
ScreenHeight == 600
FactorOne == 1000

(* Bounds of the model *)

MaxId == 1
MaxBobbingTime == 1000
MaxCalls == 12
MaxTicks == 5
MaxRemoteId == 2
MaxEvents == 4

----------------------------------------------------------------------------
(* Option<T>: None is the empty sequence, Some(v) the one-element one. *)

None == <<>>
Some(v) == <<v>>
IsSome(o) == o # <<>>
Unwrap(o) == o[1]

Min(a, b) == IF a < b THEN a ELSE b
Abs(a) == IF a < 0 THEN -a ELSE a
Sign(a) == IF a < 0 THEN -1 ELSE IF a > 0 THEN 1 ELSE 0

\* f32::clamp
Clamp(v, lo, hi) == IF v < lo THEN lo ELSE IF v > hi THEN hi ELSE v

\* Integer division truncating toward zero, as the pixel grid truncates.
TruncDiv(a, b) == Sign(a) * (Abs(a) \div b)

\* Floor of the square root (Vec2::length on the integer grid).
RECURSIVE SqrtSearch(_, _, _)
SqrtSearch(n, lo, hi) ==
    IF lo >= hi THEN lo
    ELSE LET mid == (lo + hi + 1) \div 2
         IN  IF mid * mid <= n THEN SqrtSearch(n, mid, hi)
             ELSE SqrtSearch(n, lo, mid - 1)

ISqrt(n) == SqrtSearch(n, 0, 20000)

\* Instant::elapsed() after d more milliseconds, saturating at cap.
Elapse(age, d, cap) == Min(age + d, cap)

\* macroquad get_fps(): (1.0 / frame_time) as i32.
Fps(d) == 1000 \div d

----------------------------------------------------------------------------
(* Player *)

new_local(x, y, width, height) ==
    [ id |-> 0, x |-> x, y |-> y, width |-> width, height |-> height,
      speed |-> PlayerSpeed, target_x |-> None, target_y |-> None,
      last_message_send_time |-> 0, message |-> None, message_sent |-> FALSE,
      position_changed |-> FALSE,
      current_pose_index |-> 0, next_pose_index |-> 1,
      last_pose_update_time |-> 0, pose_interp_factor |-> 0,
      is_local |-> TRUE, is_moving |-> FALSE,
      bobbing_time |-> 0, bobbing_offset |-> 0 ]

\* A remote player created without a motion target.
new_other_no_target(id, x, y) ==
    [ id |-> id, x |-> x, y |-> y, width |-> PlayerSize, height |-> PlayerSize,
      speed |-> PlayerSpeed, target_x |-> None, target_y |-> None,
      last_message_send_time |-> 0, message |-> None, message_sent |-> TRUE,
      position_changed |-> FALSE,
      current_pose_index |-> 0, next_pose_index |-> 1,
      last_pose_update_time |-> 0, pose_interp_factor |-> 0,
      is_local |-> FALSE, is_moving |-> FALSE,
      bobbing_time |-> 0, bobbing_offset |-> 0 ]

new_other(id, x, y) ==
    [ id |-> id, x |-> x, y |-> y, width |-> PlayerSize, height |-> PlayerSize,
      speed |-> PlayerSpeed, target_x |-> Some(x), target_y |-> Some(y),
      last_message_send_time |-> 0, message |-> None, message_sent |-> TRUE,
      position_changed |-> FALSE,
      current_pose_index |-> 0, next_pose_index |-> 1,
      last_pose_update_time |-> 0, pose_interp_factor |-> 0,
      is_local |-> FALSE, is_moving |-> FALSE,
      bobbing_time |-> 0, bobbing_offset |-> 0 ]

\* Has the player a motion target (both Options are Some)?
HasTarget(p) == IsSome(p.target_x) /\ IsSome(p.target_y)

\* A snap that waits until the target is within half a step.
WithinStepHalf(dx, dy, speed, d) ==
    200 * ISqrt(100 * (dx * dx + dy * dy)) < speed * d

\* A snap that also takes a target exactly one step away.
WithinStepInclusive(dx, dy, speed, d) ==
    100 * ISqrt(100 * (dx * dx + dy * dy)) <= speed * d

\* distance < speed * dt (line 140).  speed * d is in thousandths of a
\* pixel and the distance is taken in tenths; the comparison is exact
\* whenever speed * dt is a whole number of tenths of a pixel.
WithinStep(dx, dy, speed, d) ==
    100 * ISqrt(100 * (dx * dx + dy * dy)) < speed * d

\* direction.normalize() * speed * dt, one component.  |d| is taken in
\* tenths of a pixel.
StepComponent(c, dx, dy, speed, d) ==
    LET len10 == ISqrt(100 * (dx * dx + dy * dy))
    IN  IF len10 = 0 THEN 0
        ELSE TruncDiv(c * ((speed * d) \div 10), 10 * len10)

\* lines 136-154: move towards the target at constant speed
MoveStep(p, d) ==
    IF HasTarget(p) THEN
        LET tx == Unwrap(p.target_x)
            ty == Unwrap(p.target_y)
            dx == tx - p.x
            dy == ty - p.y
        IN  IF WithinStep(dx, dy, p.speed, d)
            THEN [p EXCEPT !.x = tx, !.y = ty,
                           !.target_x = None, !.target_y = None,
                           !.is_moving = FALSE, !.position_changed = TRUE]
            ELSE [p EXCEPT !.x = @ + StepComponent(dx, dx, dy, p.speed, d),
                           !.y = @ + StepComponent(dy, dx, dy, p.speed, d),
                           !.is_moving = TRUE, !.position_changed = TRUE]
    ELSE p

\* lines 156-160: clear message after 15 seconds
ExpireMessage(p) ==
    IF p.last_message_send_time >= MessageExpiry
    THEN [p EXCEPT !.message = None, !.last_message_send_time = 0]
    ELSE p

\* sin(a) in thousandths, a in hundredths of a radian (Bhaskara's rational
\* approximation on each half period).
SinMilli(a) ==
    LET r == a % 628
        h == IF r < 314 THEN r ELSE r - 314
        q == h * (314 - h)
        v == (16000 * q) \div (5 * 314 * 314 - 4 * q)
    IN  IF r < 314 THEN v ELSE -v

\* line 180: (bobbing_time * 5.0).sin() * 5.0, in thousandths
BobbingOffset(t) == 5 * SinMilli((t * 5) \div 10)

\* An increment that is not clamped.
BumpFactorUnclamped(f, d) ==
    IF Fps(d) = 0 THEN 2 * FactorOne
    ELSE f + (1000 * FactorOne) \div (pose_update_interval * Fps(d))

\* lines 171-175: the increment 1.0 / (interval_secs * fps), clamped to 1.0.
\* With fps = 0 the quotient is +inf and the clamp leaves exactly 1.0.
BumpFactor(f, d) ==
    IF Fps(d) = 0 THEN FactorOne
    ELSE Min(f + (1000 * FactorOne) \div (pose_update_interval * Fps(d)),
             FactorOne)

\* An update that leaves the bobbing of an idle player as it was.
AnimateNoReset(p, d) ==
    IF p.is_moving
    THEN LET t == Min(p.bobbing_time + d, MaxBobbingTime)
         IN  [p EXCEPT !.bobbing_time = t, !.bobbing_offset = BobbingOffset(t)]
    ELSE p

\* lines 162-185: update pose and bobbing
Animate(p, d) ==
    IF p.is_moving THEN
        LET q == IF p.last_pose_update_time >= pose_update_interval
                 THEN [p EXCEPT !.current_pose_index = p.next_pose_index,
                                !.next_pose_index =
                                    (p.next_pose_index + 1) % NumRunPoses,
                                !.pose_interp_factor = 0,
                                !.last_pose_update_time = 0]
                 ELSE [p EXCEPT !.pose_interp_factor = BumpFactor(@, d)]
            t == Min(p.bobbing_time + d, MaxBobbingTime)
        IN  [q EXCEPT !.bobbing_time = t, !.bobbing_offset = BobbingOffset(t)]
    ELSE [p EXCEPT !.bobbing_time = 0, !.bobbing_offset = 0]

\* Player::update, lines 134-186
PlayerUpdate(p, d) == Animate(ExpireMessage(MoveStep(p, d)), d)

\* The Instants of a player d milliseconds later.
ElapsePlayer(p, d) ==
    [p EXCEPT !.last_message_send_time = Elapse(@, d, MessageExpiry),
              !.last_pose_update_time = Elapse(@, d, pose_update_interval)]

----------------------------------------------------------------------------
(* Game *)

\* Game::new, lines 389-397
GameNew ==
    [ local_player |-> new_local(SpawnX, SpawnY, PlayerSize, PlayerSize),
      other_players |-> <<>>,
      last_send_time |-> 0 ]

\* What the input layer reports in one frame: the keys held down, the keys
\* pressed in this frame, and the mouse position of a right click, if any.
Input(down, pressed, click) ==
    [down |-> down, pressed |-> pressed, click |-> click]

NoInput == Input({}, {}, None)

\* lines 429-445: Space, G and H set the message, the later key winning
KeyMessage(pressed) ==
    IF "H" \in pressed THEN Some("Okay.")
    ELSE IF "G" \in pressed THEN Some("Come over here.")
    ELSE IF "Space" \in pressed THEN Some("Hello, world!")
    ELSE None

\* lines 415-427: the direction of the held keys, before normalisation
DirX(down) == (IF "D" \in down THEN 1 ELSE 0) - (IF "A" \in down THEN 1 ELSE 0)
DirY(down) == (IF "S" \in down THEN 1 ELSE 0) - (IF "W" \in down THEN 1 ELSE 0)

\* lines 450-452: one component of direction.normalize() * speed * dt; a
\* diagonal direction has components of 0.7071
KeyStep(c, other, speed, d) ==
    IF other = 0 THEN c * ((speed * d) \div 1000)
    ELSE c * ((((speed * d) \div 1000) * 7071) \div 10000)

\* Game::handle_input, lines 407-477, on the local player
HandleInput(p, inp, d) ==
    LET p1 == IF "R" \in inp.pressed
              THEN [p EXCEPT !.current_pose_index = 0,
                             !.next_pose_index = 1,
                             !.pose_interp_factor = 0,
                             !.last_pose_update_time = 0]
              ELSE p
        p2 == IF IsSome(KeyMessage(inp.pressed))
              THEN [p1 EXCEPT !.message = KeyMessage(inp.pressed),
                              !.message_sent = FALSE]
              ELSE p1
        dx == DirX(inp.down)
        dy == DirY(inp.down)
        keys == dx # 0 \/ dy # 0
        p3 == IF keys
              THEN [p2 EXCEPT
                      !.x = Clamp(@ + KeyStep(dx, dy, p2.speed, d),
                                  0, ScreenWidth - p2.width),
                      !.y = Clamp(@ + KeyStep(dy, dx, p2.speed, d),
                                  0, ScreenHeight - p2.height),
                      !.position_changed = TRUE]
              ELSE p2
        p4 == IF IsSome(inp.click)
              THEN [p3 EXCEPT !.target_x = Some(Unwrap(inp.click)[1]),
                              !.target_y = Some(Unwrap(inp.click)[2])]
              ELSE p3
    IN  [p4 EXCEPT !.is_moving =
                      keys \/ IsSome(inp.click) \/ IsSome(p4.target_x)]

\* lines 401-404: update every player
UpdatePlayers(g, d) ==
    [g EXCEPT !.local_player = PlayerUpdate(@, d),
              !.other_players =
                  [i \in 1..Len(@) |-> PlayerUpdate(@[i], d)]]

\* Game::update, lines 399-405
GameUpdate(g, inp, d) ==
    UpdatePlayers([g EXCEPT !.local_player = HandleInput(@, inp, d)], d)

\* Every Instant of the game d milliseconds later.
ElapseGame(g, d) ==
    [g EXCEPT !.local_player = ElapsePlayer(@, d),
              !.other_players = [i \in 1..Len(@) |-> ElapsePlayer(@[i], d)],
              !.last_send_time = Elapse(@, d, HeartbeatInterval)]

----------------------------------------------------------------------------
(* ClientMessage, lines 15-21 *)

PlayerPosition(id, x, y) ==
    [kind |-> "PlayerPosition", id |-> id, x |-> x, y |-> y]
UpdateMessage(id, message) ==
    [kind |-> "UpdateMessage", id |-> id, message |-> message]

\* A message handed to network().send, with the time since the previous
\* PlayerPosition was sent.
Sent(m) == [msg |-> m, gap |-> sincePos]

PositionsSent == {i \in 1..Len(outbox) : outbox[i].msg.kind = "PlayerPosition"}

----------------------------------------------------------------------------
(* The frame loop of main, lines 595-695.  Each block of an iteration takes *)
(* the lock, runs and releases it, so the listener may run between any two *)
(* of them.  The blocks of one iteration follow each other without a wait: *)
(* their clock readings are taken as one instant, and time passes in Pace, *)
(* where the loop awaits the next frame and sleeps.                        *)

\* The frame times and the inputs the frame loop is run with.  The frame
\* times are those of a stalling loop: half a second, which is below the one
\* second of the heartbeat and of the message send, and seven seconds, which
\* is above them and below the 15 seconds of the expiry.
FrameTimes == {500, 7000}
ClickAt == <<400, 175>>
MessageInputs ==
    { NoInput,
      Input({}, {"Space"}, None),
      Input({}, {"G"}, None) }
MotionInputs ==
    { NoInput,
      Input({"W"}, {}, None),
      Input({}, {}, Some(ClickAt)) }

SeenNothing ==
    [x0 |-> 0, y0 |-> 0, hbId |-> 0, hbElapsed |-> 0,
     chId |-> 0, chDirty |-> FALSE, key |-> FALSE]

\* lines 600-604: update game state
UpdateBlock(inputs) ==
    /\ pc = "update"
    /\ \E inp \in inputs :
         LET g == GameUpdate(game, inp, dt)
             key == IsSome(KeyMessage(inp.pressed))
         IN  /\ game' = g
             /\ setAge' = IF ~IsSome(g.local_player.message) THEN None
                          ELSE IF key THEN Some(0) ELSE setAge
             /\ msgSends' = IF key THEN 0 ELSE msgSends
             /\ seen' = [seen EXCEPT !.x0 = game.local_player.x,
                                     !.y0 = game.local_player.y,
                                     !.key = key]
    /\ pc' = "heartbeat"
    /\ UNCHANGED <<dt, outbox, lastPos, sincePos, calls, start>>
    /\ UNCHANGED aux

\* A heartbeat that waits for more than a second.
HeartbeatDueLate(g) ==
    g.local_player.id # 0 /\ g.last_send_time > HeartbeatInterval

\* A heartbeat that is sent only for a changed position.
HeartbeatDueIfChanged(g) ==
    /\ g.local_player.id # 0
    /\ g.last_send_time >= HeartbeatInterval
    /\ g.local_player.position_changed

\* line 609
HeartbeatDue(g) ==
    g.local_player.id # 0 /\ g.last_send_time >= HeartbeatInterval

\* lines 606-621: send heartbeat position to server every 1 second
HeartbeatBlock ==
    /\ pc = "heartbeat"
    /\ LET lp == game.local_player
       IN  /\ IF HeartbeatDue(game)
              THEN /\ outbox' = Append(outbox,
                                       Sent(PlayerPosition(lp.id, lp.x, lp.y)))
                   /\ game' = [game EXCEPT !.last_send_time = 0]
                   /\ lastPos' = Some(<<lp.x, lp.y>>)
                   /\ sincePos' = 0
              ELSE UNCHANGED <<outbox, game, lastPos, sincePos>>
           /\ seen' = [seen EXCEPT !.hbId = lp.id,
                                   !.hbElapsed = game.last_send_time]
    /\ pc' = "change"
    /\ UNCHANGED <<dt, setAge, msgSends, calls, start>>
    /\ UNCHANGED aux

\* A change-triggered send that ignores the send interval.
ChangeDueUnlimited(g) ==
    g.local_player.id # 0 /\ g.local_player.position_changed

\* lines 626-628
ChangeDue(g) ==
    /\ g.local_player.id # 0
    /\ g.last_send_time >= send_interval
    /\ g.local_player.position_changed

\* lines 623-640: send position update if enough time has passed
ChangeBlock ==
    /\ pc = "change"
    /\ LET lp == game.local_player
       IN  /\ IF ChangeDue(game)
              THEN /\ outbox' = Append(outbox,
                                       Sent(PlayerPosition(lp.id, lp.x, lp.y)))
                   /\ game' = [game EXCEPT
                                 !.last_send_time = 0,
                                 !.local_player.position_changed = FALSE]
                   /\ lastPos' = Some(<<lp.x, lp.y>>)
                   /\ sincePos' = 0
              ELSE UNCHANGED <<outbox, game, lastPos, sincePos>>
           /\ seen' = [seen EXCEPT !.chId = lp.id,
                                   !.chDirty = lp.position_changed]
    /\ pc' = "message"
    /\ UNCHANGED <<dt, setAge, msgSends, calls, start>>
    /\ UNCHANGED aux

\* lines 645-647
MessageDue(lp) ==
    /\ lp.last_message_send_time >= message_send_interval
    /\ IsSome(lp.message)
    /\ ~lp.message_sent

\* A send that restarts the timer but forgets the flag.
MarkSentTimerOnly(lp) == [lp EXCEPT !.last_message_send_time = 0]

\* lines 655-656
MarkSent(lp) ==
    [lp EXCEPT !.message_sent = TRUE, !.last_message_send_time = 0]

\* lines 642-666: send the message, then clear it after 15 seconds
MessageBlock ==
    /\ pc = "message"
    /\ LET lp == game.local_player
           due == MessageDue(lp)
           lp1 == IF due THEN MarkSent(lp) ELSE lp
           lp2 == ExpireMessage(lp1)
       IN  /\ outbox' = IF due
                        THEN Append(outbox,
                                    Sent(UpdateMessage(lp.id, Unwrap(lp.message))))
                        ELSE outbox
           /\ msgSends' = IF due THEN msgSends + 1 ELSE msgSends
           /\ game' = [game EXCEPT !.local_player = lp2]
           /\ setAge' = IF IsSome(lp2.message) THEN setAge ELSE None
    /\ pc' = "draw"
    /\ UNCHANGED <<dt, lastPos, sincePos, seen, calls, start>>
    /\ UNCHANGED aux

\* lines 668-694: render, next_frame().await and the pacing sleep; the next
\* iteration starts d milliseconds after this one
Pace ==
    /\ pc = "draw"
    /\ \E d \in FrameTimes :
         /\ dt' = d
         /\ game' = ElapseGame(game, d)
         /\ sincePos' = Elapse(sincePos, d, HeartbeatInterval)
         /\ setAge' = IF IsSome(setAge)
                      THEN Some(Elapse(Unwrap(setAge), d, MessageExpiry))
                      ELSE None
    /\ outbox' = <<>>
    /\ seen' = SeenNothing
    /\ pc' = "update"
    /\ UNCHANGED <<lastPos, msgSends, calls, start>>
    /\ UNCHANGED aux

----------------------------------------------------------------------------
(* The network listener, lines 537-593 *)

Ids == 0..MaxId

\* lines 561-565
AssignPlayerId(id) ==
    /\ game' = [game EXCEPT !.local_player.id = id]
    /\ UNCHANGED <<pc, dt, outbox, lastPos, sincePos, setAge, msgSends, seen,
                   calls, start>>
    /\ UNCHANGED aux

Listener == \E id \in Ids : AssignPlayerId(id)

----------------------------------------------------------------------------
(* The client: the frame loop and the listener sharing the game *)

NoStart == [x |-> 0, y |-> 0, tx |-> 0, ty |-> 0]

\* No event yet, nothing drawn, and the Mutex as Mutex::new leaves it.
NoEvent == [kind |-> "None"]
Free == <<"free", "">>
AuxInit ==
    /\ last = NoEvent
    /\ rep = 1
    /\ before = <<>>
    /\ drawn = <<>>
    /\ lock = Free
    /\ poisoned = FALSE
    /\ crashed = {}

Init ==
    /\ game = GameNew
    /\ pc = "update"
    /\ dt \in FrameTimes
    /\ outbox = <<>>
    /\ lastPos = None
    /\ sincePos = 0
    /\ setAge = None
    /\ msgSends = 0
    /\ seen = SeenNothing
    /\ calls = 0
    /\ start = NoStart
    /\ AuxInit

FrameLoop(inputs) ==
    \/ UpdateBlock(inputs)
    \/ HeartbeatBlock
    \/ ChangeBlock
    \/ MessageBlock
    \/ Pace

Next(inputs) == FrameLoop(inputs) \/ Listener

\* The client with the message keys in use.
Spec == Init /\ [][Next(MessageInputs)]_vars

\* The client with the movement inputs in use.
SpecMove == Init /\ [][Next(MotionInputs)]_vars

\* The client with right clicks in use.  The loop of main never ends and
\* the listener holds the lock for one short arm at a time, so a block that
\* is ready to run does run.
ClickInputs == {NoInput, Input({}, {}, Some(ClickAt))}
LiveMove ==
    Init /\ [][Next(ClickInputs)]_vars /\ WF_vars(FrameLoop(ClickInputs))

----------------------------------------------------------------------------
(* Player::update called repeatedly on entities with a motion target *)

\* A report that moves the player at once.
RetargetJump(p, x, y) ==
    [p EXCEPT !.x = x, !.y = y, !.target_x = Some(x), !.target_y = Some(y)]

\* lines 554-555: a position report retargets a known remote player
Retarget(p, x, y) == [p EXCEPT !.target_x = Some(x), !.target_y = Some(y)]

\* The starting points, the targets and the speeds of the entities, and
\* the fixed dt of the calls.
MotionStarts == {<<0, 0>>, <<40, 30>>, <<100, 0>>}
MotionTargets == {<<100, 0>>, <<0, 0>>, <<43, 34>>, <<70, 70>>, <<60, 80>>}
MotionSpeeds == {100, PlayerSpeed}
MotionDts == {100, 200}

\* A local player that was given a target by a right click, and a remote
\* player that was given the same one by a position report.
InitMotion ==
    /\ \E s \in MotionStarts, t \in MotionTargets, v \in MotionSpeeds :
         /\ game = [GameNew EXCEPT
                      !.local_player =
                          HandleInput([new_local(s[1], s[2], PlayerSize, PlayerSize)
                                          EXCEPT !.speed = v],
                                      Input({}, {}, Some(t)), 0),
                      !.other_players =
                          <<Retarget(new_other(1, s[1], s[2]), t[1], t[2])>>]
         /\ start = [x |-> s[1], y |-> s[2], tx |-> t[1], ty |-> t[2]]
    /\ dt \in MotionDts
    /\ pc = "update"
    /\ outbox = <<>>
    /\ lastPos = None
    /\ sincePos = 0
    /\ setAge = None
    /\ msgSends = 0
    /\ seen = SeenNothing
    /\ calls = 0
    /\ AuxInit

\* One more call of update on every player, dt after the previous one.
Advance ==
    /\ calls < MaxCalls
    /\ game' = UpdatePlayers(ElapseGame(game, dt), dt)
    /\ calls' = calls + 1
    /\ UNCHANGED <<pc, dt, outbox, lastPos, sincePos, setAge, msgSends, seen,
                   start>>
    /\ UNCHANGED aux

SpecMotion == InitMotion /\ [][Advance]_vars

----------------------------------------------------------------------------
(* Game::update called frame after frame *)

AnimFrameTimes == {40, 100, 500}
AnimInputs ==
    { NoInput,
      Input({"W"}, {}, None),
      Input({"W"}, {"R"}, None),
      Input({}, {}, Some(<<SpawnX, SpawnY - 30>>)) }

\* The game as created, with one remote player gliding to a reported
\* position.
InitAnim ==
    /\ game = [GameNew EXCEPT
                 !.other_players = <<Retarget(new_other(1, 100, 100), 100, 130)>>]
    /\ dt \in AnimFrameTimes
    /\ pc = "update"
    /\ outbox = <<>>
    /\ lastPos = None
    /\ sincePos = 0
    /\ setAge = None
    /\ msgSends = 0
    /\ seen = SeenNothing
    /\ calls = 0
    /\ start = NoStart
    /\ AuxInit

\* One frame: the input is polled and Game::update runs, d after the
\* previous frame.
Tick ==
    /\ calls < MaxTicks
    /\ \E inp \in AnimInputs, d \in AnimFrameTimes :
         /\ dt' = d
         /\ game' = GameUpdate(ElapseGame(game, d), inp, d)
    /\ calls' = calls + 1
    /\ UNCHANGED <<pc, outbox, lastPos, sincePos, setAge, msgSends, seen,
                   start>>
    /\ UNCHANGED aux

SpecAnim == InitAnim /\ [][Tick]_vars

----------------------------------------------------------------------------
(* The listener's NetEvent::Message arm, lines 545-586, with Game::update  *)
(* and Game::draw running between the messages.                            *)

AssignPlayerIdMsg(id) == [kind |-> "AssignPlayerId", id |-> id]
OtherPlayerDisconnected(id) == [kind |-> "OtherPlayerDisconnected", id |-> id]
Undecodable == [kind |-> "Undecodable"]

\* bincode::serialize of a ClientMessage: the index of the variant in the
\* enum, then the fields in their order, one word each.
Encode(m) ==
    CASE m.kind = "PlayerPosition" -> <<0, m.id, m.x, m.y>>
      [] m.kind = "AssignPlayerId" -> <<1, m.id>>
      [] m.kind = "UpdateMessage" -> <<2, m.id, m.message>>
      [] m.kind = "OtherPlayerDisconnected" -> <<3, m.id>>

\* bincode::deserialize::<ClientMessage>, line 546: Err (None) for an empty
\* payload, an unknown variant index or a payload that ends before the
\* last field of its variant; Ok (Some) otherwise.
Decode(data) ==
    IF Len(data) = 0 THEN None
    ELSE CASE data[1] = 0 ->
                IF Len(data) < 4 THEN None
                ELSE Some(PlayerPosition(data[2], data[3], data[4]))
           [] data[1] = 1 ->
                IF Len(data) < 2 THEN None
                ELSE Some(AssignPlayerIdMsg(data[2]))
           [] data[1] = 2 ->
                IF Len(data) < 3 THEN None
                ELSE Some(UpdateMessage(data[2], data[3]))
           [] data[1] = 3 ->
                IF Len(data) < 2 THEN None
                ELSE Some(OtherPlayerDisconnected(data[2]))
           [] OTHER -> None

\* A search that finds nobody.
FindNobody(others, id) == 0

\* iter_mut().find(|p| p.id == id), lines 552 and 574: the index of the
\* first remote player with that id, 0 when there is none
Find(others, id) ==
    IF \E i \in 1..Len(others) : others[i].id = id
    THEN CHOOSE i \in 1..Len(others) :
            /\ others[i].id = id
            /\ \A j \in 1..(i - 1) : others[j].id # id
    ELSE 0

\* A report that always creates a player.
OnPlayerPositionPush(g, id, x, y) ==
    IF id # g.local_player.id
    THEN [g EXCEPT !.other_players = Append(@, new_other(id, x, y))]
    ELSE g

\* lines 548-560
OnPlayerPosition(g, id, x, y) ==
    IF id # g.local_player.id
    THEN LET i == Find(g.other_players, id)
         IN  IF i # 0
             THEN [g EXCEPT !.other_players[i] = Retarget(@, x, y)]
             ELSE [g EXCEPT !.other_players = Append(@, new_other(id, x, y))]
    ELSE g

\* lines 561-565
OnAssignPlayerId(g, id) == [g EXCEPT !.local_player.id = id]

\* A retain with the test the wrong way round.
OnOtherPlayerDisconnectedKeep(g, id) ==
    [g EXCEPT !.other_players = SelectSeq(@, LAMBDA p : p.id = id)]

\* lines 566-569
OnOtherPlayerDisconnected(g, id) ==
    [g EXCEPT !.other_players = SelectSeq(@, LAMBDA p : p.id # id)]

\* A message that is stored without restarting its timer.
OnUpdateMessageNoTimer(g, id, message) ==
    IF id # g.local_player.id /\ Find(g.other_players, id) # 0
    THEN [g EXCEPT !.other_players[Find(g.other_players, id)].message =
                       Some(message)]
    ELSE g

\* lines 570-580
OnUpdateMessage(g, id, message) ==
    IF id # g.local_player.id
    THEN LET i == Find(g.other_players, id)
         IN  IF i # 0
             THEN [g EXCEPT !.other_players[i].last_message_send_time = 0,
                            !.other_players[i].message = Some(message)]
             ELSE g
    ELSE g

\* A failed decode that drops the players heard of so far.
OnDecodeErrorLossy(g) == [g EXCEPT !.other_players = <<>>]

\* lines 582-584: the error is printed
OnDecodeError(g) == g

\* lines 546-585: the payload is decoded and its arm runs
OnMessage(g, data) ==
    LET r == Decode(data)
    IN  IF ~IsSome(r) THEN OnDecodeError(g)
        ELSE LET m == Unwrap(r)
             IN  CASE m.kind = "PlayerPosition" ->
                        OnPlayerPosition(g, m.id, m.x, m.y)
                   [] m.kind = "AssignPlayerId" -> OnAssignPlayerId(g, m.id)
                   [] m.kind = "OtherPlayerDisconnected" ->
                        OnOtherPlayerDisconnected(g, m.id)
                   [] m.kind = "UpdateMessage" ->
                        OnUpdateMessage(g, m.id, m.message)

\* Game::draw, lines 479-496, from the i-th remote player on: the players
\* in the order of their draw calls
RECURSIVE DrawFrom(_, _, _)
DrawFrom(g, i, local_player_drawn) ==
    IF i > Len(g.other_players)
    THEN IF ~local_player_drawn THEN <<g.local_player>> ELSE <<>>
    ELSE LET player == g.other_players[i]
         IN  IF ~local_player_drawn /\ g.local_player.y < player.y
             THEN <<g.local_player, player>> \o DrawFrom(g, i + 1, TRUE)
             ELSE <<player>> \o DrawFrom(g, i + 1, local_player_drawn)

Draw(g) == DrawFrom(g, 1, FALSE)

\* The ids, the positions and the text the server sends, the payloads it
\* sends them in, and the payloads that do not decode.
RemoteIds == 0..MaxRemoteId
NetPositions == {<<100, 290>>, <<100, 320>>}
NetMessages ==
    {PlayerPosition(id, xy[1], xy[2]) : id \in RemoteIds, xy \in NetPositions}
    \cup {AssignPlayerIdMsg(id) : id \in Ids}
    \cup {UpdateMessage(id, "Okay.") : id \in RemoteIds}
    \cup {OtherPlayerDisconnected(id) : id \in RemoteIds}
Garbage == {<<>>, <<4, 1>>, <<0, 1, 100>>}
Payloads == {Encode(m) : m \in NetMessages} \cup Garbage

\* The frame time and the inputs of the frames.
NetFrameTimes == {100}
NetInputs ==
    { NoInput,
      Input({"W"}, {}, None),
      Input({"W"}, {}, Some(<<SpawnX, SpawnY - 30>>)) }

InitNet ==
    /\ game = GameNew
    /\ pc = "update"
    /\ dt \in NetFrameTimes
    /\ outbox = <<>>
    /\ lastPos = None
    /\ sincePos = 0
    /\ setAge = None
    /\ msgSends = 0
    /\ seen = SeenNothing
    /\ calls = 0
    /\ start = NoStart
    /\ AuxInit

\* The ids of the remote players, in the order of the collection.
RemoteIdsOf(g) == [i \in 1..Len(g.other_players) |-> g.other_players[i].id]

\* The event ev has happened.
Happened(ev) ==
    /\ calls' = calls + 1
    /\ last' = ev
    /\ rep' = IF ev = last THEN 2 ELSE 1
    /\ before' = RemoteIdsOf(game)
    /\ UNCHANGED <<pc, outbox, lastPos, sincePos, setAge, msgSends, seen,
                   start, lock, poisoned, crashed>>

\* NetEvent::Message(_, data)
Message ==
    /\ calls < MaxEvents
    /\ \E data \in Payloads :
         /\ game' = OnMessage(game, data)
         /\ Happened(IF IsSome(Decode(data)) THEN Unwrap(Decode(data))
                     ELSE Undecodable)
    /\ drawn' = <<>>
    /\ UNCHANGED dt

\* lines 600-604: a frame's Game::update, d after the previous frame
NetUpdate ==
    /\ calls < MaxEvents
    /\ \E inp \in NetInputs, d \in NetFrameTimes :
         /\ dt' = d
         /\ game' = GameUpdate(ElapseGame(game, d), inp, d)
         /\ Happened([kind |-> "Update", inp |-> inp])
    /\ drawn' = <<>>

\* lines 670-673: a frame's Game::draw
NetDraw ==
    /\ calls < MaxEvents
    /\ drawn' = Draw(game)
    /\ Happened([kind |-> "Draw"])
    /\ UNCHANGED <<game, dt>>

SpecNet == InitNet /\ [][Message \/ NetUpdate \/ NetDraw]_vars

----------------------------------------------------------------------------
(* The Mutex around the game, lines 533-534.  Every block of the frame     *)
(* loop and every arm of the listener takes it with lock().unwrap(), keeps *)
(* the guard to the end of its scope, and drops it there.  A panic drops   *)
(* the guard while unwinding and leaves the Mutex poisoned; lock() on a    *)
(* poisoned Mutex returns Err, and unwrap() panics on it.                  *)

Held(thread) == lock[1] = thread

\* lines 602, 608, 625, 643, 671: game.lock().unwrap() of the block at pc
MainLock ==
    /\ "main" \notin crashed
    /\ lock = Free
    /\ IF poisoned
       THEN crashed' = crashed \cup {"main"} /\ UNCHANGED lock
       ELSE lock' = <<"main", pc>> /\ UNCHANGED crashed
    /\ UNCHANGED <<game, pc, dt, outbox, lastPos, sincePos, setAge, msgSends,
                   seen, calls, start, last, rep, before, drawn, poisoned>>

\* The body of the block at pc, run with the guard held; a message it
\* sends is serialized (Ok) and handed to the network inside it.
MainBody(inputs) ==
    /\ lock = <<"main", pc>>
    /\ FrameLoop(inputs)

\* lines 616, 635, 652: bincode::serialize(&message).unwrap() on an Err.
\* The block at pc was about to send; the panic unwinds out of the loop.
SerializePanic ==
    /\ lock = <<"main", pc>>
    /\ \/ pc = "heartbeat" /\ HeartbeatDue(game)
       \/ pc = "change" /\ ChangeDue(game)
       \/ pc = "message" /\ MessageDue(game.local_player)
    /\ crashed' = crashed \cup {"main"}
    /\ poisoned' = TRUE
    /\ lock' = Free
    /\ UNCHANGED <<game, pc, dt, outbox, lastPos, sincePos, setAge, msgSends,
                   seen, calls, start, last, rep, before, drawn>>

\* lines 604, 621, 640, 666, 673: the guard goes out of scope at the end of
\* the block, whose body has run (pc has moved on)
MainUnlock ==
    /\ Held("main") /\ lock[2] # pc
    /\ lock' = Free
    /\ UNCHANGED <<game, pc, dt, outbox, lastPos, sincePos, setAge, msgSends,
                   seen, calls, start, last, rep, before, drawn, poisoned,
                   crashed>>

\* lines 549, 562, 567, 571: game_clone.lock().unwrap() of an arm
ListenerLock ==
    /\ "listener" \notin crashed
    /\ lock = Free
    /\ IF poisoned
       THEN crashed' = crashed \cup {"listener"} /\ UNCHANGED lock
       ELSE lock' = <<"listener", "">> /\ UNCHANGED crashed
    /\ UNCHANGED <<game, pc, dt, outbox, lastPos, sincePos, setAge, msgSends,
                   seen, calls, start, last, rep, before, drawn, poisoned>>

\* lines 561-565: the AssignPlayerId arm with the guard held, to its end
ListenerArm ==
    /\ Held("listener")
    /\ \E id \in Ids : game' = OnAssignPlayerId(game, id)
    /\ lock' = Free
    /\ UNCHANGED <<pc, dt, outbox, lastPos, sincePos, setAge, msgSends,
                   seen, calls, start, last, rep, before, drawn, poisoned,
                   crashed>>

LockInputs == {NoInput, Input({}, {"Space"}, None)}

NextLock ==
    \/ MainLock
    \/ MainBody(LockInputs)
    \/ SerializePanic
    \/ MainUnlock
    \/ ListenerLock
    \/ ListenerArm

\* The client with the Mutex and the failures of serialize in view.
SpecLock == Init /\ [][NextLock]_vars

----------------------------------------------------------------------------
(* Properties of the send scheduler *)

Local == game.local_player

\* C1: while the local id is 0 the frame loop transmits nothing: no message
\* handed to the network carries id 0.
C1_NothingSentUnassigned ==
    \A i \in 1..Len(outbox) : outbox[i].msg.id # 0

\* C2: a message set by one key press is transmitted at most once.
C2_SentAtMostOnce == msgSends <= 1

\* A later message block found the timer due again and the sent message
\* still there, and did not send it a second time.
C2_Witness ==
    /\ pc = "draw"
    /\ msgSends = 1
    /\ IsSome(Local.message)
    /\ Local.message_sent
    /\ Local.last_message_send_time >= message_send_interval

\* C3: a message set by a key press is gone once an iteration has run its
\* expiry checks 15 seconds or more after the key press.
C3_ClearedWithin15s ==
    pc = "draw" /\ IsSome(setAge) => Unwrap(setAge) < MessageExpiry

\* The PlayerPosition messages of this iteration carry the current position.
CarryCurrentPosition ==
    \A i \in PositionsSent :
        outbox[i].msg.x = Local.x /\ outbox[i].msg.y = Local.y

\* The number of PlayerPosition messages the heartbeat rule allows in an
\* iteration: one when a second had passed since the last one, else none.
HeartbeatCount == IF seen.hbElapsed >= HeartbeatInterval THEN 1 ELSE 0

\* C4 (as claimed): with a non-zero id and the position unchanged by this
\* iteration, a PlayerPosition is sent exactly when a second has passed
\* since the last one, and none in between.
C4_HeartbeatWhileStill ==
    (/\ pc = "message"
     /\ seen.hbId # 0 /\ seen.chId # 0
     /\ Local.x = seen.x0 /\ Local.y = seen.y0)
    => Cardinality(PositionsSent) = HeartbeatCount /\ CarryCurrentPosition

\* C4 (amended): with a non-zero id and no position change pending (the
\* position_changed flag clear when the change-triggered block runs), a
\* PlayerPosition carrying the current position is sent exactly when a
\* second has passed since the last one, and none in between.
C4_HeartbeatWhileClean ==
    (/\ pc = "message"
     /\ seen.hbId # 0 /\ seen.chId # 0
     /\ ~seen.chDirty)
    => Cardinality(PositionsSent) = HeartbeatCount /\ CarryCurrentPosition

C4_Witness ==
    /\ pc = "message"
    /\ seen.hbId # 0 /\ seen.chId # 0
    /\ ~seen.chDirty
    /\ seen.hbElapsed >= HeartbeatInterval
    /\ Cardinality(PositionsSent) = 1

\* C5: two consecutive PlayerPosition transmissions are at least the send
\* interval apart; so an iteration sends at most one.
C5_RateLimited ==
    /\ Cardinality(PositionsSent) <= 1
    /\ \A i \in PositionsSent : outbox[i].gap >= send_interval

\* The heartbeat was due and the position was dirty in the same iteration,
\* and the iteration sent one PlayerPosition.
C5_Witness ==
    /\ pc = "message"
    /\ seen.hbId # 0 /\ seen.chId # 0
    /\ seen.hbElapsed >= HeartbeatInterval
    /\ seen.chDirty
    /\ Cardinality(PositionsSent) = 1

\* C6: if from some point on the local id is non-zero and the local
\* position no longer changes, then eventually the last position
\* transmitted is the current position, for good.
C6_EventuallyConsistent ==
    (/\ <>[](Local.id # 0)
     /\ <>[][Local.x' = Local.x /\ Local.y' = Local.y]_vars)
    => <>[](lastPos = Some(<<Local.x, Local.y>>))

\* The player moved away from the spawn point, came to rest, and its
\* resting position is the last one transmitted.
C6_Witness ==
    /\ Local.id # 0
    /\ ~Local.is_moving
    /\ <<Local.x, Local.y>> # <<SpawnX, SpawnY>>
    /\ lastPos = Some(<<Local.x, Local.y>>)

----------------------------------------------------------------------------
(* Properties of Player::update *)

\* Every player: the local one first, then the remote ones.
Players == <<game.local_player>> \o game.other_players

Dist2(p, tx, ty) == (tx - p.x) * (tx - p.x) + (ty - p.y) * (ty - p.y)

\* A call took p, which has a target, to q: q has not passed the target on
\* either axis and is no farther from it; either the target is cleared, and
\* then q is at the target exactly, or the target stays the same and q is
\* strictly nearer to it.
TowardTarget(p, q) ==
    LET tx == Unwrap(p.target_x)
        ty == Unwrap(p.target_y)
    IN  /\ Dist2(q, tx, ty) <= Dist2(p, tx, ty)
        /\ (tx - q.x) * (tx - p.x) >= 0
        /\ (ty - q.y) * (ty - p.y) >= 0
        /\ IF HasTarget(q)
           THEN /\ q.target_x = p.target_x /\ q.target_y = p.target_y
                /\ Dist2(q, tx, ty) < Dist2(p, tx, ty)
           ELSE q.x = tx /\ q.y = ty

AtStartTarget(p) == ~HasTarget(p) /\ p.x = start.tx /\ p.y = start.ty

\* C7: repeated update calls with a fixed dt never overshoot the target
\* and bring the entity strictly nearer each time, so that after finitely
\* many of them (MaxCalls at most, for the distances tried) every entity is
\* at its target exactly, with the target absent.
C7_MotionConverges ==
    /\ [][\A i \in 1..Len(Players) :
            HasTarget(Players[i]) => TowardTarget(Players[i], (Players')[i])]_vars
    /\ [](calls = MaxCalls =>
            \A i \in 1..Len(Players) : AtStartTarget(Players[i]))

\* Both entities travelled diagonally and arrived.
C7_Witness ==
    /\ start.x # start.tx /\ start.y # start.ty
    /\ calls >= 3
    /\ \A i \in 1..Len(Players) : AtStartTarget(Players[i])

\* The scenario: from (0,0) to (100,0) at speed 100 with dt 0.1 s.
Scenario ==
    /\ start = [x |-> 0, y |-> 0, tx |-> 100, ty |-> 0]
    /\ Local.speed = 100
    /\ dt = 100

\* C8 (as claimed): in the scenario, after exactly 10 calls the position is
\* (100,0) and the target is cleared.
C8_TenCalls ==
    Scenario /\ calls = 10
    => Local.x = 100 /\ Local.y = 0 /\ ~HasTarget(Local)

\* C8 (amended): in the scenario, after exactly 10 calls the position is
\* (100,0) with the target still set; the 11th call clears it.
C8_EleventhCallClears ==
    Scenario =>
        /\ calls <= 10 => Local.x = 10 * calls /\ Local.y = 0 /\ HasTarget(Local)
        /\ calls >= 11 => Local.x = 100 /\ Local.y = 0 /\ ~HasTarget(Local)

C8_Witness ==
    Scenario /\ calls = 11 /\ Local.x = 100 /\ ~HasTarget(Local)

FactorInRange ==
    \A i \in 1..Len(Players) :
        /\ Players[i].pose_interp_factor >= 0
        /\ Players[i].pose_interp_factor <= FactorOne

\* lines 166-168, seen from outside: the pose cycle advanced from p to q
CycleAdvanced(p, q) ==
    /\ q.current_pose_index = p.next_pose_index
    /\ q.next_pose_index = (p.next_pose_index + 1) % NumRunPoses
    /\ q.pose_interp_factor = 0

\* lines 409-412, seen from outside: the R key restarted the pose cycle
PoseRestarted(q) ==
    /\ q.is_local
    /\ q.current_pose_index = 0
    /\ q.next_pose_index = 1
    /\ q.last_pose_update_time = 0

\* C9 (as claimed): the factor stays within [0, 1] and never decreases
\* except in a step that advances the pose cycle, which resets it to 0.
C9_FactorOnlyResetsOnAdvance ==
    /\ []FactorInRange
    /\ [][\A i \in 1..Len(Players) :
            (Players')[i].pose_interp_factor < Players[i].pose_interp_factor
            => CycleAdvanced(Players[i], (Players')[i])]_vars

\* C9 (amended): the factor stays within [0, 1] and never decreases except
\* in a step that advances the pose cycle, which resets it to 0, or in a
\* frame in which the R key restarts the local player's pose cycle at
\* (0, 1) with the factor counted from 0 again.
C9_FactorResetsOnAdvanceOrRestart ==
    /\ []FactorInRange
    /\ [][\A i \in 1..Len(Players) :
            (Players')[i].pose_interp_factor < Players[i].pose_interp_factor
            => \/ CycleAdvanced(Players[i], (Players')[i])
               \/ PoseRestarted((Players')[i])]_vars

\* The cycle has advanced and the factor has grown again since.
C9_Witness ==
    /\ Local.current_pose_index >= 1
    /\ Local.pose_interp_factor > 0
    /\ Local.pose_interp_factor < FactorOne

\* C10: after every update call a player that is not moving has
\* bobbing_time and bobbing_offset exactly 0.
C10_IdleReset ==
    \A i \in 1..Len(Players) :
        ~Players[i].is_moving
        => Players[i].bobbing_time = 0 /\ Players[i].bobbing_offset = 0

\* Each player has been moving (its pose was animated) and has come to
\* rest, the local one by releasing the key or reaching its target, the
\* remote one by reaching its target; neither bobs.
WasAnimated(p) == p.current_pose_index >= 1 \/ p.pose_interp_factor > 0

C10_Witness ==
    /\ Len(Players) = 2
    /\ \A i \in 1..2 :
         /\ WasAnimated(Players[i])
         /\ ~Players[i].is_moving
         /\ Players[i].bobbing_time = 0 /\ Players[i].bobbing_offset = 0
    /\ Local.y # SpawnY
    /\ ~HasTarget(Players[2]) /\ Players[2].y = 130

----------------------------------------------------------------------------
(* Properties of the listener *)

Others == game.other_players

\* The step is the arrival of one message of that kind.
Arrives(kind) == calls' = calls + 1 /\ last'.kind = kind

\* The id, the position and the target of every remote player.
RemoteView(g) ==
    [i \in 1..Len(g.other_players) |->
        LET p == g.other_players[i]
        IN  <<p.id, p.x, p.y, p.target_x, p.target_y>>]

\* C11: a PlayerPosition report applied a second time in a row leaves the
\* local player and the ids, positions and targets of the remote players
\* as its first application left them.
C11_RemoteIdempotent ==
    [][Arrives("PlayerPosition") /\ rep' = 2
       => /\ game'.local_player = game.local_player
          /\ RemoteView(game') = RemoteView(game)]_vars

\* The report of an unseen id came twice, and there is one player.
C11_Witness ==
    /\ last.kind = "PlayerPosition" /\ rep = 2 /\ calls = 2
    /\ RemoteIdsOf(game) = <<last.id>>
    /\ RemoteView(game)[1] =
         <<last.id, last.x, last.y, Some(last.x), Some(last.y)>>

\* C12: a PlayerPosition whose id is neither the local id nor the id of a
\* remote player adds one remote player with that id, at the reported
\* position, with the reported position as its target, and changes nothing
\* else; when that player is the only one, an OtherPlayerDisconnected
\* naming it leaves the collection empty.
C12_CreatesOne ==
    [][/\ (/\ Arrives("PlayerPosition")
           /\ last'.id # Local.id
           /\ Find(Others, last'.id) = 0)
          => /\ game'.local_player = game.local_player
             /\ Len(Others') = Len(Others) + 1
             /\ SubSeq(Others', 1, Len(Others)) = Others
             /\ RemoteView(game')[Len(Others')] =
                  <<last'.id, last'.x, last'.y, Some(last'.x), Some(last'.y)>>
       /\ (/\ Arrives("OtherPlayerDisconnected")
           /\ last.kind = "PlayerPosition"
           /\ before = <<>> /\ RemoteIdsOf(game) = <<last'.id>>)
          => Others' = <<>>]_vars

\* A second player was created behind the first one.
C12_Witness ==
    /\ last.kind = "PlayerPosition" /\ rep = 1
    /\ Len(before) = 1 /\ Len(Others) = 2
    /\ before[1] # last.id
    /\ RemoteView(game)[2] =
         <<last.id, last.x, last.y, Some(last.x), Some(last.y)>>

\* The indices of the remote players whose id is not id.
Kept(others, id) == {i \in 1..Len(others) : others[i].id # id}

\* C13: OtherPlayerDisconnected{id} removes the remote players whose id
\* is id and keeps the others as they were and in their order; the local
\* player is unchanged, and with no such remote player nothing changes.
C13_RemovesExactly ==
    [][Arrives("OtherPlayerDisconnected")
       => LET keep == Kept(Others, last'.id)
          IN  /\ game'.local_player = game.local_player
              /\ Len(Others') = Cardinality(keep)
              /\ \A i \in keep :
                    Others'[Cardinality({j \in keep : j <= i})] = Others[i]
              /\ (keep = 1..Len(Others) => game' = game)]_vars

\* The first of two players was removed and the second one is left.
C13_Witness ==
    /\ last.kind = "OtherPlayerDisconnected"
    /\ Len(before) = 2 /\ before[1] = last.id
    /\ RemoteIdsOf(game) = <<before[2]>>

\* The remote player of g with the id of q, if there is one.
Known(g, q) == Find(g.other_players, q.id) # 0
Earlier(g, q) == g.other_players[Find(g.other_players, q.id)]

\* C14: the position of a remote player that exists before and after a
\* step changes only in a Game::update, and then toward the target the
\* player had; a PlayerPosition for a known id changes that player's
\* target and nothing else.
C14_RemoteMovesOnlyByUpdate ==
    [][/\ \A i \in 1..Len(Others') :
            LET q == Others'[i]
            IN  (Known(game, q)
                 /\ <<q.x, q.y>> # <<Earlier(game, q).x, Earlier(game, q).y>>)
                => /\ last'.kind = "Update"
                   /\ HasTarget(Earlier(game, q))
                   /\ TowardTarget(Earlier(game, q), q)
       /\ (/\ Arrives("PlayerPosition")
           /\ last'.id # Local.id
           /\ Find(Others, last'.id) # 0)
          => /\ game'.local_player = game.local_player
             /\ Len(Others') = Len(Others)
             /\ \A i \in 1..Len(Others) :
                   Others'[i] =
                     IF i = Find(Others, last'.id)
                     THEN [Others[i] EXCEPT !.target_x = Some(last'.x),
                                            !.target_y = Some(last'.y)]
                     ELSE Others[i]]_vars

\* A known player was reported elsewhere: it has the new target and is
\* still where it was.
C14_Witness ==
    /\ last.kind = "PlayerPosition"
    /\ \E i \in 1..Len(Others) :
         /\ Others[i].id = last.id
         /\ \E j \in 1..Len(before) : before[j] = last.id
         /\ Others[i].target_x = Some(last.x)
         /\ Others[i].target_y = Some(last.y)
         /\ <<Others[i].x, Others[i].y>> # <<last.x, last.y>>

\* C15: an UpdateMessage for the id of a remote player, other than the
\* local id, sets that player's message and restarts its message timer and
\* changes nothing else; for any other id the game is unchanged.
C15_MessageStored ==
    [][Arrives("UpdateMessage")
       => IF last'.id # Local.id /\ Find(Others, last'.id) # 0
          THEN /\ game'.local_player = game.local_player
               /\ game'.last_send_time = game.last_send_time
               /\ Len(Others') = Len(Others)
               /\ \A i \in 1..Len(Others) :
                     Others'[i] =
                       IF i = Find(Others, last'.id)
                       THEN [Others[i] EXCEPT
                               !.message = Some(last'.message),
                               !.last_message_send_time = 0]
                       ELSE Others[i]
          ELSE game' = game]_vars

\* A player that had been there for a frame got a message: its message
\* timer is back at 0.
C15_Witness ==
    /\ last.kind = "UpdateMessage"
    /\ \E i \in 1..Len(Others) :
         /\ Others[i].id = last.id
         /\ Others[i].message = Some(last.message)
         /\ Others[i].last_message_send_time = 0
         /\ Others[i].last_pose_update_time > 0

\* C16: a payload that does not decode changes neither the local player
\* nor the remote players, and the messages that come after it take
\* effect: an id is assigned, an unseen player is created.
C16_UndecodableDropped ==
    [][/\ Arrives("Undecodable") => game' = game
       /\ (last.kind = "Undecodable" /\ Arrives("AssignPlayerId"))
          => game'.local_player.id = last'.id
       /\ (/\ last.kind = "Undecodable" /\ Arrives("PlayerPosition")
           /\ last'.id # Local.id)
          => /\ Find(Others', last'.id) # 0
             /\ HasTarget(Others'[Find(Others', last'.id)])]_vars

\* A payload did not decode while an id was assigned and a remote player
\* was there; both are as they were.
C16_Witness ==
    /\ last.kind = "Undecodable"
    /\ Local.id # 0
    /\ Len(Others) >= 1 /\ RemoteIdsOf(game) = before

\* Every player is drawn once.
DrawnOnce ==
    /\ Len(drawn) = Len(Players)
    /\ \A i \in 1..Len(Players) : \E j \in 1..Len(drawn) : drawn[j] = Players[i]

\* C17: Game::draw draws every player once, and in an order in which y
\* never decreases.
C17_BackToFront ==
    last.kind = "Draw"
    => /\ DrawnOnce
       /\ \A i, j \in 1..Len(drawn) : i < j => drawn[i].y <= drawn[j].y
\* C20: at the end of a Game::update the local player's is_moving is
\* true exactly when it has a motion target or a direction key was held in
\* that frame, and a remote player with a motion target has is_moving
\* true.
C20_IsMovingDerived ==
    last.kind = "Update"
    => /\ Local.is_moving
          <=> (\/ HasTarget(Local)
               \/ DirX(last.inp.down) # 0 \/ DirY(last.inp.down) # 0)
       /\ \A i \in 1..Len(Others) :
             HasTarget(Others[i]) => Others[i].is_moving

----------------------------------------------------------------------------
(* Properties of the Mutex *)

\* C18: the frame loop hands no message to the network while it holds the
\* lock on the game.
C18_SendOutsideLock ==
    [][Len(outbox') > Len(outbox) => ~Held("main")]_vars

\* C19: a failure of serialize costs the message only: the frame loop
\* does not panic, and the Mutex is left in a state in which the listener
\* can lock it.
C19_SerializeFailureSurvived == "main" \notin crashed /\ ~poisoned

----------------------------------------------------------------------------
(* Properties of the remote collection *)

\* C21: no two remote players have the same id, whatever messages have
\* arrived and whatever frames have run between them.
C21_OnePerId ==
    \A i, j \in 1..Len(Others) : i # j => Others[i].id # Others[j].id

\* A player that was already there was reported again, next to another
\* one, and there are still two.
C21_Witness ==
    /\ last.kind = "PlayerPosition"
    /\ Len(before) = 2 /\ RemoteIdsOf(game) = before
    /\ \E i \in 1..2 : before[i] = last.id
    /\ before[1] # before[2]

\* C22: no remote player has the id the local player has now.
C22_LocalIdNotRemote ==
    \A i \in 1..Len(Others) : Others[i].id # Local.id

----------------------------------------------------------------------------
(* Properties of the local message *)

\* C23: a message set by a key press is transmitted before it is cleared:
\* the message set in this iteration's update is there until it is sent,
\* and no step removes a message whose message_sent is still false.
C23_SentBeforeCleared ==
    /\ [](seen.key /\ msgSends = 0 => IsSome(Local.message))
    /\ [][IsSome(Local.message) /\ ~Local.message_sent
          => IsSome(Local'.message)]_vars

====
